---- MODULE Spec2Model ----
(***************************************************************************)
(* Model of MirrorCoordinate (src/main.py): the DMS codec, the mirror      *)
(* transform, the offset anchor and the module-level driver.               *)
(*                                                                         *)
(* Text is a sequence of one-character strings.  A decimal-degree value is *)
(* an integer number of sub-units: one unit is the last formatted field    *)
(* (1/3,600,000 degree) and one unit is SubUnits sub-units, so values that *)
(* are not a whole number of units exist.  Arithmetic on decimal degrees   *)
(* is exact; the rounding of IEEE doubles is modelled where int() turns   *)
(* it into a whole output unit, in to_dms, as a choice among the texts the *)
(* call can return.  Sines and cosines are taken at the multiples of a     *)
(* right angle, where they are integers.                                   *)
(***************************************************************************)
EXTENDS Integers, Sequences, FiniteSets, TLC

\* ---------------------------------------------------------------- bounds
SubUnits == 2
MaxBatch == 3
MaxCoord == 2

\* ------------------------------------------------------ program constants
MinutesPerDegree == 60
SecondsPerDegree == 3600
MsecPerDegree == 3600000
DegWidth == 3
MinWidth == 2
SecWidth == 2
MsecWidth == 3

UnitsPerDeg == MsecPerDegree * SubUnits
UnitsPerMin == (MsecPerDegree \div MinutesPerDegree) * SubUnits
UnitsPerSec == (MsecPerDegree \div SecondsPerDegree) * SubUnits

\* ------------------------------------------------------------- characters
DigitChars == <<"0", "1", "2", "3", "4", "5", "6", "7", "8", "9">>

IsDigit(c) == \E d \in 1..10 : DigitChars[d] = c

DigitVal(c) == (CHOOSE d \in 1..10 : DigitChars[d] = c) - 1

Abs(x) == IF x >= 0 THEN x ELSE -x

\* Python int(x) on a quotient: truncation toward zero.
Trunc(n, d) == IF n >= 0 THEN n \div d ELSE -((-n) \div d)

\* int(str) on a run of decimal digits.
RECURSIVE ToInt(_)
ToInt(ds) ==
    IF ds = <<>> THEN 0
    ELSE 10 * ToInt(SubSeq(ds, 1, Len(ds) - 1)) + DigitVal(ds[Len(ds)])

\* ------------------------------------------------------ the parse pattern
\* r"COORD:([NS])(\d+)\.(\d+)\.(\d+)\.(\d+):([EW])(\d+)\.(\d+)\.(\d+)\.(\d+)"
\* A token is a literal character, a character class or a digit run.
Lit(c) == [kind |-> "lit", chars |-> {c}]
Cls(S) == [kind |-> "cls", chars |-> S]
Num == [kind |-> "num", chars |-> {}]

Pattern ==
    << Lit("C"), Lit("O"), Lit("O"), Lit("R"), Lit("D"), Lit(":"),
       Cls({"N", "S"}), Num, Lit("."), Num, Lit("."), Num, Lit("."), Num,
       Lit(":"),
       Cls({"E", "W"}), Num, Lit("."), Num, Lit("."), Num, Lit("."), Num >>

NoMatch == <<"NoMatch">>

\* Length of the longest run of digits of s that starts at position i
\* (\d+ is greedy, and the token after it never matches a digit).
RECURSIVE DigitRun(_, _)
DigitRun(s, i) ==
    IF i <= Len(s) /\ IsDigit(s[i]) THEN 1 + DigitRun(s, i + 1) ELSE 0

\* re.match: the pattern is matched from the start of the string, token by
\* token; the match succeeds as soon as the pattern is used up, whatever
\* follows in the string.
RECURSIVE Scan(_, _, _, _)
Scan(s, i, t, groups) ==
    IF t > Len(Pattern) THEN groups
    ELSE LET tok == Pattern[t] IN
         CASE tok.kind = "lit" ->
                IF i <= Len(s) /\ s[i] \in tok.chars
                THEN Scan(s, i + 1, t + 1, groups) ELSE NoMatch
           [] tok.kind = "cls" ->
                IF i <= Len(s) /\ s[i] \in tok.chars
                THEN Scan(s, i + 1, t + 1, Append(groups, <<s[i]>>))
                ELSE NoMatch
           [] tok.kind = "num" ->
                LET n == DigitRun(s, i) IN
                IF n = 0 THEN NoMatch
                ELSE Scan(s, i + n, t + 1,
                          Append(groups, SubSeq(s, i, i + n - 1)))

re_match(s) == Scan(s, 1, 1, <<>>)

\* ----------------------------------------------------------- dms_to_decimal
ValueError == [ok |-> FALSE, error |-> "Invalid DMS format"]

dms_to_decimal(dms_str) ==
    LET match == re_match(dms_str) IN
    IF match = NoMatch THEN ValueError
    ELSE LET lat_dir == match[1]
             lon_dir == match[6]
             lat == SubUnits * ( ToInt(match[2]) * MsecPerDegree
                               + ToInt(match[3]) * (MsecPerDegree \div MinutesPerDegree)
                               + ToInt(match[4]) * (MsecPerDegree \div SecondsPerDegree)
                               + ToInt(match[5]) )
             lon == SubUnits * ( ToInt(match[7]) * MsecPerDegree
                               + ToInt(match[8]) * (MsecPerDegree \div MinutesPerDegree)
                               + ToInt(match[9]) * (MsecPerDegree \div SecondsPerDegree)
                               + ToInt(match[10]) )
         IN [ok  |-> TRUE,
             lat |-> IF lat_dir = <<"S">> THEN -lat ELSE lat,
             lon |-> IF lon_dir = <<"W">> THEN -lon ELSE lon]

\* ----------------------------------------------------------- decimal_to_dms
\* str(n) for a natural number.
RECURSIVE Digits(_)
Digits(n) ==
    IF n < 10 THEN <<DigitChars[n + 1]>>
    ELSE Digits(n \div 10) \o <<DigitChars[(n % 10) + 1]>>

\* f"{n:0{width}d}": zero-padded to at least width characters.
RECURSIVE ZeroPad(_, _)
ZeroPad(ds, width) ==
    IF Len(ds) >= width THEN ds ELSE ZeroPad(<<"0">> \o ds, width)

\* A double holds a binary fraction: k / n is a double exactly when the odd
\* part of n divides k (for the magnitudes at hand).  A rounded double lies
\* within a rounding error of the value it stands for; the error is far
\* smaller than a sub-unit, so only its sign is kept.
RECURSIVE OddPart(_)
OddPart(n) == IF n % 2 = 0 THEN OddPart(n \div 2) ELSE n

RoundErr == {-1, 0, 1}

\* The error of the double that holds value: none if value is a double (a
\* whole number of units over MsecPerDegree), and none that matters if
\* value is not a whole number of units.
ValueErr(value) ==
    IF value % (OddPart(MsecPerDegree) * SubUnits) = 0 \/ value % SubUnits # 0
    THEN {0} ELSE RoundErr

\* The errors of the quotients minutes / 60 and seconds / 3600.
MinutesErr(minutes) ==
    IF minutes % OddPart(MinutesPerDegree) = 0 THEN {0} ELSE RoundErr
SecondsErr(seconds) ==
    IF seconds % OddPart(SecondsPerDegree) = 0 THEN {0} ELSE RoundErr

\* The errors a sum of terms with the errors e and f can have.
SumErr(e, f) == IF e = 0 THEN {f} ELSE IF f = 0 THEN {e} ELSE RoundErr

\* int(x * k) for the double x that stands for n sub-units with an error of
\* sign e, in fields of d sub-units: an x just below a whole number of
\* fields truncates to the field before it.
IntOf(n, d, e) ==
    IF e < 0 /\ n > 0 /\ n % d = 0 THEN (n \div d) - 1 ELSE Trunc(n, d)

\* to_dms for one axis: the set of texts the call can return, one for each
\* choice of the rounding errors of value and of the residuals
\* value - degrees - minutes / 60 and ... - seconds / 3600.
to_dms(value, direction_positive, direction_negative) ==
    LET direction == IF value >= 0 THEN direction_positive
                                   ELSE direction_negative
        v == Abs(value)
    IN UNION { LET degrees == IntOf(v, UnitsPerDeg, e0)
                   r1 == v - degrees * UnitsPerDeg
                   minutes == IntOf(r1, UnitsPerMin, e0)
                   r2 == r1 - minutes * UnitsPerMin
               IN UNION { LET seconds == IntOf(r2, UnitsPerSec, e1)
                              r3 == r2 - seconds * UnitsPerSec
                          IN { LET milliseconds == IntOf(r3, SubUnits, e2)
                               IN <<direction>>
                                  \o ZeroPad(Digits(degrees), DegWidth) \o <<".">>
                                  \o ZeroPad(Digits(minutes), MinWidth) \o <<".">>
                                  \o ZeroPad(Digits(seconds), SecWidth) \o <<".">>
                                  \o ZeroPad(Digits(milliseconds), MsecWidth)
                               : e2 \in UNION {SumErr(e1, f) : f \in SecondsErr(seconds)} }
                        : e1 \in UNION {SumErr(e0, f) : f \in MinutesErr(minutes)} }
             : e0 \in ValueErr(v) }

\* The set of texts decimal_to_dms(lat, lon) can return.
decimal_to_dms(lat, lon) ==
    { <<"C", "O", "O", "R", "D", ":">> \o lat_dms \o <<":">> \o lon_dms
      : lat_dms \in to_dms(lat, "N", "S"), lon_dms \in to_dms(lon, "E", "W") }

\* ------------------------------------------------------------ trigonometry
\* math.cos / math.sin of math.radians(angle), exact at the multiples of a
\* right angle; the argument is kept in degrees.
radians(angle) == angle

Quadrant(angle_rad) == (angle_rad % 360) \div 90

cos(angle_rad) == <<1, 0, -1, 0>>[Quadrant(angle_rad) + 1]

sin(angle_rad) == <<0, 1, 0, -1>>[Quadrant(angle_rad) + 1]

Angles == {-90, 0, 90, 180, 270}

\* The angles the driver is run with.
DriverAngles == {0, 90}

\* -------------------------------------------------------- mirror_coordinates
\* Variants of the loop body, each with one plausible slip.
\* The result is not translated back to the reference.
MirrorPointNoTranslateBack(lat0, lon0, ref_lat, ref_lon, angle) ==
    LET angle_rad == radians(angle)
        lat == lat0 - ref_lat
        lon == lon0 - ref_lon
        lat_rot == lat * cos(angle_rad) + lon * sin(angle_rad)
        lon_rot == -lat * sin(angle_rad) + lon * cos(angle_rad)
        lon_mirrored == -lon_rot
    IN << lat_rot * cos(-angle_rad) + lon_mirrored * sin(-angle_rad),
          -lat_rot * sin(-angle_rad) + lon_mirrored * cos(-angle_rad) >>

\* The point is not translated to the origin first.
MirrorPointNoTranslate(lat0, lon0, ref_lat, ref_lon, angle) ==
    LET angle_rad == radians(angle)
        lat == lat0
        lon == lon0
        lat_rot == lat * cos(angle_rad) + lon * sin(angle_rad)
        lon_rot == -lat * sin(angle_rad) + lon * cos(angle_rad)
        lon_mirrored == -lon_rot
    IN << lat_rot * cos(-angle_rad) + lon_mirrored * sin(-angle_rad) + ref_lat,
          -lat_rot * sin(-angle_rad) + lon_mirrored * cos(-angle_rad) + ref_lon >>

\* The first rotated component is negated instead of the second.
MirrorPointOtherAxis(lat0, lon0, ref_lat, ref_lon, angle) ==
    LET angle_rad == radians(angle)
        lat == lat0 - ref_lat
        lon == lon0 - ref_lon
        lat_rot == -(lat * cos(angle_rad) + lon * sin(angle_rad))
        lon_rot == -lat * sin(angle_rad) + lon * cos(angle_rad)
    IN << lat_rot * cos(-angle_rad) + lon_rot * sin(-angle_rad) + ref_lat,
          -lat_rot * sin(-angle_rad) + lon_rot * cos(-angle_rad) + ref_lon >>

\* The rotation back uses angle_rad instead of -angle_rad.
MirrorPointSameAngle(lat0, lon0, ref_lat, ref_lon, angle) ==
    LET angle_rad == radians(angle)
        lat == lat0 - ref_lat
        lon == lon0 - ref_lon
        lat_rot == lat * cos(angle_rad) + lon * sin(angle_rad)
        lon_rot == -lat * sin(angle_rad) + lon * cos(angle_rad)
        lon_mirrored == -lon_rot
    IN << lat_rot * cos(angle_rad) + lon_mirrored * sin(angle_rad) + ref_lat,
          -lat_rot * sin(angle_rad) + lon_mirrored * cos(angle_rad) + ref_lon >>

\* The body of the loop of mirror_coordinates for one parsed coordinate.
MirrorPoint(lat0, lon0, ref_lat, ref_lon, angle) ==
    LET angle_rad == radians(angle)
        lat == lat0 - ref_lat
        lon == lon0 - ref_lon
        lat_rot == lat * cos(angle_rad) + lon * sin(angle_rad)
        lon_rot == -lat * sin(angle_rad) + lon * cos(angle_rad)
        lon_mirrored == -lon_rot
    IN << lat_rot * cos(-angle_rad) + lon_mirrored * sin(-angle_rad) + ref_lat,
          -lat_rot * sin(-angle_rad) + lon_mirrored * cos(-angle_rad) + ref_lon >>

Parsed(coords) == [i \in 1..Len(coords) |-> dms_to_decimal(coords[i])]

AllOk(rs) == \A i \in 1..Len(rs) : rs[i].ok

mirror_coordinates(coords, ref_lat, ref_lon, angle) ==
    LET ps == Parsed(coords) IN
    IF ~AllOk(ps) THEN ValueError
    ELSE [ok |-> TRUE,
          value |-> [i \in 1..Len(coords) |->
                       MirrorPoint(ps[i].lat, ps[i].lon, ref_lat, ref_lon, angle)]]

\* --------------------------------------------------------------- apply_offset
\* math.hypot is compared through its square, which orders the same way.
Hypot2(dx, dy) == dx * dx + dy * dy

\* A scan that keeps the element seen last among those with the smallest key.
RECURSIVE MinScanLast(_, _, _, _, _)
MinScanLast(ps, ref_lat, ref_lon, i, best) ==
    IF i > Len(ps) THEN best
    ELSE IF Hypot2(ps[i][1] - ref_lat, ps[i][2] - ref_lon)
              <= Hypot2(best[1] - ref_lat, best[2] - ref_lon)
         THEN MinScanLast(ps, ref_lat, ref_lon, i + 1, ps[i])
         ELSE MinScanLast(ps, ref_lat, ref_lon, i + 1, best)

\* min(iterable, key=...): a left-to-right scan that keeps the element seen
\* first among those with the smallest key.
RECURSIVE MinScan(_, _, _, _, _)
MinScan(ps, ref_lat, ref_lon, i, best) ==
    IF i > Len(ps) THEN best
    ELSE IF Hypot2(ps[i][1] - ref_lat, ps[i][2] - ref_lon)
              < Hypot2(best[1] - ref_lat, best[2] - ref_lon)
         THEN MinScan(ps, ref_lat, ref_lon, i + 1, ps[i])
         ELSE MinScan(ps, ref_lat, ref_lon, i + 1, best)

EmptyMinError == [ok |-> FALSE, error |-> "min() arg is an empty sequence"]

apply_offset(mirrored_coords, ref_coord, final_offset_coord) ==
    LET ref == dms_to_decimal(ref_coord)
        final == dms_to_decimal(final_offset_coord)
    IN IF ~ref.ok THEN ValueError
       ELSE IF ~final.ok THEN ValueError
       ELSE IF mirrored_coords = <<>> THEN EmptyMinError
       ELSE LET nearest == MinScan(mirrored_coords, ref.lat, ref.lon, 2,
                                   mirrored_coords[1])
                lat_offset == final.lat - nearest[1]
                lon_offset == final.lon - nearest[2]
            IN [ok |-> TRUE,
                value |-> [i \in 1..Len(mirrored_coords) |->
                             << mirrored_coords[i][1] + lat_offset,
                                mirrored_coords[i][2] + lon_offset >>]]

\* ==================================================================== state
VARIABLES
    coordinates,              \* the batch of DMS texts (line 144)
    reference_coordinate,     \* line 149
    final_offset_coordinate,  \* line 150
    mirror_angle,             \* line 151
    original_decimal,         \* line 154
    mirrored_decimal,         \* line 157
    mirrored_offset_decimal,  \* line 160
    printed,                  \* the lines printed so far (lines 166-167)
    raised,                   \* the exception that ended the script, or "none"
    pc,                       \* the statement of the driver that runs next
    c_text, c_decimal, c_start, c_origin, c_phase,   \* one codec call chain
    m_point, m_start, m_ref, m_angle, m_count, m_phase   \* one mirror call chain

driver_vars == << coordinates, reference_coordinate, final_offset_coordinate,
                  mirror_angle, original_decimal, mirrored_decimal,
                  mirrored_offset_decimal, printed, raised, pc >>
codec_vars == << c_text, c_decimal, c_start, c_origin, c_phase >>
mirror_vars == << m_point, m_start, m_ref, m_angle, m_count, m_phase >>
vars == << driver_vars, codec_vars, mirror_vars >>

DriverIdle ==
    /\ coordinates = <<>> /\ reference_coordinate = <<>>
    /\ final_offset_coordinate = <<>> /\ mirror_angle = 0
    /\ original_decimal = <<>> /\ mirrored_decimal = <<>>
    /\ mirrored_offset_decimal = <<>> /\ printed = <<>>
    /\ raised = "none" /\ pc = "idle"

CodecIdle ==
    /\ c_text = <<>> /\ c_decimal = <<0, 0>> /\ c_start = <<0, 0>>
    /\ c_origin = "none" /\ c_phase = "idle"

MirrorIdle ==
    /\ m_point = <<0, 0>> /\ m_start = <<0, 0>> /\ m_ref = <<0, 0>>
    /\ m_angle = 0 /\ m_count = 0 /\ m_phase = "idle"

\* ------------------------------------------------------------------- inputs
Field4(a, b, c, d) ==
    Digits(a) \o <<".">> \o Digits(b) \o <<".">> \o Digits(c) \o <<".">> \o Digits(d)

Prefix == <<"C", "O", "O", "R", "D", ":">>

Text(lat_dir, a, b, c, d, lon_dir, e, f, g, h) ==
    Prefix \o <<lat_dir>> \o Field4(a, b, c, d) \o <<":">>
           \o <<lon_dir>> \o Field4(e, f, g, h)

RefText == Text("N", 0, 0, 0, 1, "E", 0, 0, 0, 2)
NearA == Text("N", 0, 0, 0, 4, "E", 0, 0, 0, 6)
NearB == Text("N", 0, 0, 0, 5, "E", 0, 0, 0, 5)
Far == Text("S", 0, 0, 0, 9, "W", 0, 0, 0, 9)
BadDirection == Prefix \o <<"X">> \o Field4(0, 0, 0, 4) \o <<":", "E">> \o Field4(0, 0, 0, 6)
MissingColon == Prefix \o <<"N">> \o Field4(0, 0, 0, 1) \o <<"E">> \o Field4(0, 0, 0, 2)
TargetText == Text("S", 0, 0, 0, 7, "W", 0, 0, 0, 3)

BatchTexts == {NearA, NearB, Far, RefText, BadDirection}
RefTexts == {RefText, RefText \o <<"X">>, MissingColon}
TargetTexts == {TargetText, MissingColon}

Batches == UNION {[1..n -> BatchTexts] : n \in 0..MaxBatch}

\* =================================================================== driver
Init ==
    /\ coordinates \in Batches
    /\ reference_coordinate \in RefTexts
    /\ final_offset_coordinate \in TargetTexts
    /\ mirror_angle \in DriverAngles
    /\ original_decimal = <<>> /\ mirrored_decimal = <<>>
    /\ mirrored_offset_decimal = <<>> /\ printed = <<>>
    /\ raised = "none" /\ pc = "convert"
    /\ CodecIdle /\ MirrorIdle

Raise(error) == raised' = error /\ pc' = "failed"

\* line 154: original_decimal = [dms_to_decimal(coord) for coord in coordinates]
ConvertOriginal ==
    /\ pc = "convert"
    /\ LET ps == Parsed(coordinates) IN
       IF AllOk(ps)
       THEN /\ original_decimal' = [i \in 1..Len(ps) |-> <<ps[i].lat, ps[i].lon>>]
            /\ pc' = "mirror"
            /\ UNCHANGED raised
       ELSE /\ Raise(ValueError.error)
            /\ UNCHANGED original_decimal
    /\ UNCHANGED << coordinates, reference_coordinate, final_offset_coordinate,
                    mirror_angle, mirrored_decimal, mirrored_offset_decimal,
                    printed, codec_vars, mirror_vars >>

\* line 157: mirror_coordinates(coordinates, *dms_to_decimal(reference), angle)
MirrorBatch ==
    /\ pc = "mirror"
    /\ LET ref == dms_to_decimal(reference_coordinate) IN
       IF ~ref.ok
       THEN Raise(ref.error) /\ UNCHANGED mirrored_decimal
       ELSE LET r == mirror_coordinates(coordinates, ref.lat, ref.lon, mirror_angle) IN
            IF r.ok
            THEN mirrored_decimal' = r.value /\ pc' = "offset" /\ UNCHANGED raised
            ELSE Raise(r.error) /\ UNCHANGED mirrored_decimal
    /\ UNCHANGED << coordinates, reference_coordinate, final_offset_coordinate,
                    mirror_angle, original_decimal, mirrored_offset_decimal,
                    printed, codec_vars, mirror_vars >>

\* line 160: apply_offset(mirrored_decimal, reference, final_offset)
OffsetBatch ==
    /\ pc = "offset"
    /\ LET r == apply_offset(mirrored_decimal, reference_coordinate,
                             final_offset_coordinate) IN
       IF r.ok
       THEN mirrored_offset_decimal' = r.value /\ pc' = "plot" /\ UNCHANGED raised
       ELSE Raise(r.error) /\ UNCHANGED mirrored_offset_decimal
    /\ UNCHANGED << coordinates, reference_coordinate, final_offset_coordinate,
                    mirror_angle, original_decimal, mirrored_decimal,
                    printed, codec_vars, mirror_vars >>

\* line 163: plot_coordinates(...); it unpacks zip(*original), zip(*mirrored)
\* and zip(*mirrored_offset) into two names each, parses the reference and
\* the target again, and changes none of the driver's values.
PlotBatch ==
    /\ pc = "plot"
    /\ IF original_decimal = <<>> \/ mirrored_decimal = <<>>
          \/ mirrored_offset_decimal = <<>>
       THEN Raise("not enough values to unpack")
       ELSE IF ~dms_to_decimal(reference_coordinate).ok
               \/ ~dms_to_decimal(final_offset_coordinate).ok
       THEN Raise(ValueError.error)
       ELSE pc' = "print" /\ UNCHANGED raised
    /\ UNCHANGED << coordinates, reference_coordinate, final_offset_coordinate,
                    mirror_angle, original_decimal, mirrored_decimal,
                    mirrored_offset_decimal, printed, codec_vars, mirror_vars >>

\* lines 166-167: one iteration of the printing loop.
PrintCoordinate ==
    /\ pc = "print"
    /\ LET n == Len(printed) + 1
           coord == mirrored_offset_decimal[n]
       IN /\ \E line \in decimal_to_dms(coord[1], coord[2]) :
                printed' = Append(printed, line)
          /\ pc' = IF n = Len(mirrored_offset_decimal) THEN "done" ELSE "print"
    /\ UNCHANGED << coordinates, reference_coordinate, final_offset_coordinate,
                    mirror_angle, original_decimal, mirrored_decimal,
                    mirrored_offset_decimal, raised, codec_vars, mirror_vars >>

Next ==
    \/ ConvertOriginal
    \/ MirrorBatch
    \/ OffsetBatch
    \/ PlotBatch
    \/ PrintCoordinate

Spec == Init /\ [][Next]_vars

\* ==================================================================== codec
\* One chain of codec calls: either a decimal pair is formatted and the text
\* parsed back, or a text is parsed.
Insert(s, i, c) == SubSeq(s, 1, i - 1) \o <<c>> \o SubSeq(s, i, Len(s))
Delete(s, i) == SubSeq(s, 1, i - 1) \o SubSeq(s, i + 1, Len(s))
Replace(s, i, c) == [s EXCEPT ![i] = c]

MutationChars == {"X", "9", ":", ".", " ", "N"}

ValidText == Text("N", 1, 2, 3, 4, "E", 5, 6, 7, 8)
ExampleText == Text("S", 8, 44, 47, 5, "E", 115, 10, 34, 143)
ExampleBadDirection ==
    Prefix \o <<"X">> \o Field4(8, 44, 47, 5) \o <<":", "E">> \o Field4(115, 10, 34, 143)
ExampleMissingColon ==
    Prefix \o <<"S">> \o Field4(8, 44, 47, 5) \o <<"E">> \o Field4(115, 10, 34, 143)

TestTexts ==
    {ValidText, ExampleText, ExampleBadDirection, ExampleMissingColon, <<>>}
    \cup {Delete(ValidText, i) : i \in 1..Len(ValidText)}
    \cup {Insert(ValidText, i, c) : i \in 1..(Len(ValidText) + 1), c \in MutationChars}
    \cup {Replace(ValidText, i, c) : i \in 1..Len(ValidText), c \in MutationChars}

\* Decimal values in sub-units, within 90 degrees of latitude and 180 of
\* longitude: doubles that are a whole number of units (0, 30 min, 8 deg,
\* 8 deg 3 min 45 s, 8 deg 7 min 30 s, 90 deg and their doubles) and values
\* between two units.
ExactMagnitudes ==
    { k * OddPart(MsecPerDegree) * SubUnits : k \in {0, 64, 1024, 1032, 1040, 11520} }

BetweenMagnitudes ==
    { v + j : v \in ExactMagnitudes \ {90 * UnitsPerDeg}, j \in 1..(SubUnits - 1) }

Signed(S) == S \cup {-v : v \in S}

DecimalPairs ==
    { <<lat, lon>> : lat \in Signed(ExactMagnitudes \cup BetweenMagnitudes),
                     lon \in Signed(ExactMagnitudes \cup BetweenMagnitudes) }
    \cup { <<lat, 2 * lat>> : lat \in Signed(ExactMagnitudes) }

InitCodec ==
    /\ DriverIdle /\ MirrorIdle
    /\ \/ /\ c_origin = "decimal"
          /\ c_start \in DecimalPairs
          /\ c_decimal = c_start
          /\ c_text = <<>>
          /\ c_phase = "format"
       \/ /\ c_origin = "text"
          /\ c_text \in TestTexts
          /\ c_start = <<0, 0>>
          /\ c_decimal = <<0, 0>>
          /\ c_phase = "parse"

\* decimal_to_dms(lat, lon)
FormatStep ==
    /\ c_phase = "format"
    /\ c_text' \in decimal_to_dms(c_decimal[1], c_decimal[2])
    /\ c_phase' = "parse"
    /\ UNCHANGED << c_decimal, c_start, c_origin, driver_vars, mirror_vars >>

\* dms_to_decimal(text)
ParseStep ==
    /\ c_phase = "parse"
    /\ LET r == dms_to_decimal(c_text) IN
       IF r.ok
       THEN c_decimal' = <<r.lat, r.lon>> /\ c_phase' = "parsed"
       ELSE c_phase' = "rejected" /\ UNCHANGED c_decimal
    /\ UNCHANGED << c_text, c_start, c_origin, driver_vars, mirror_vars >>

NextCodec == FormatStep \/ ParseStep

SpecCodec == InitCodec /\ [][NextCodec]_vars

\* =================================================================== mirror
\* One chain of applications of the mirror transform to a point.
Grid == (-MaxCoord)..MaxCoord

InitMirror ==
    /\ DriverIdle /\ CodecIdle
    /\ m_start \in Grid \X Grid
    /\ m_ref \in Grid \X Grid
    /\ m_angle \in Angles
    /\ m_point = m_start
    /\ m_count = 0
    /\ m_phase = "apply"

ApplyMirror ==
    /\ m_phase = "apply"
    /\ m_count < 2
    /\ m_point' = MirrorPoint(m_point[1], m_point[2], m_ref[1], m_ref[2], m_angle)
    /\ m_count' = m_count + 1
    /\ UNCHANGED << m_start, m_ref, m_angle, m_phase, driver_vars, codec_vars >>

NextMirror == ApplyMirror

SpecMirror == InitMirror /\ [][NextMirror]_vars

\* The driver and the mirror chain together.
InitAll == Init \/ InitMirror

NextAll == Next \/ NextMirror

SpecAll == InitAll /\ [][NextAll]_vars

\* =================================================================== claims
\* The grammar COORD:<N|S><digits>.<digits>.<digits>.<digits>:<E|W>... as a
\* property of a whole text.
IsFields(f) ==
    /\ Len(f) >= 1
    /\ \A i \in 1..Len(f) : f[i] = "." \/ IsDigit(f[i])
    /\ Cardinality({i \in 1..Len(f) : f[i] = "."}) = 3
    /\ f[1] # "." /\ f[Len(f)] # "."
    /\ \A i \in 1..(Len(f) - 1) : ~(f[i] = "." /\ f[i + 1] = ".")

IsHalf(h, dirs) == Len(h) >= 2 /\ h[1] \in dirs /\ IsFields(Tail(h))

InGrammar(s) ==
    /\ Len(s) > Len(Prefix)
    /\ SubSeq(s, 1, Len(Prefix)) = Prefix
    /\ \E c \in (Len(Prefix) + 1)..Len(s) :
          /\ s[c] = ":"
          /\ IsHalf(SubSeq(s, Len(Prefix) + 1, c - 1), {"N", "S"})
          /\ IsHalf(SubSeq(s, c + 1, Len(s)), {"E", "W"})

WellFormedEntries == {i \in 1..Len(coordinates) : InGrammar(coordinates[i])}

Ended == pc \in {"done", "failed"}

\* C1: with a well-formed reference and target, the driver ends normally and
\* has printed exactly one coordinate per well-formed batch entry, the
\* malformed entries being skipped.
C1_SkipAndContinue ==
    ( /\ Ended
      /\ InGrammar(reference_coordinate)
      /\ InGrammar(final_offset_coordinate) )
    => /\ pc = "done"
       /\ Len(printed) = Cardinality(WellFormedEntries)

\* C2: dms_to_decimal succeeds on a text if and only if the whole text is an
\* instance of the grammar.
C2_MatchAllOrFail ==
    (c_origin = "text" /\ c_phase \in {"parsed", "rejected"})
    => (c_phase = "parsed" <=> InGrammar(c_text))

\* Squared planar distance of element i of a batch to the reference.
Dist2(B, i, r) == Hypot2(B[i][1] - r.lat, B[i][2] - r.lon)

\* The smallest index whose element is nearest to the reference.
FirstNearest(B, r) ==
    CHOOSE k \in 1..Len(B) :
        /\ \A j \in 1..Len(B) : Dist2(B, k, r) <= Dist2(B, j, r)
        /\ \A j \in 1..(k - 1) : Dist2(B, j, r) > Dist2(B, k, r)

\* apply_offset has just returned.
Anchored == pc = "plot"

\* C3: after apply_offset the result has the length of the mirrored batch,
\* element i is B[i] + (t - B[k]) for k the first index nearest to the
\* reference, element k is the target itself, and all pairwise differences
\* of the batch are kept.
C3_OffsetAnchor ==
    Anchored =>
      LET B == mirrored_decimal
          R == mirrored_offset_decimal
          r == dms_to_decimal(reference_coordinate)
          t == dms_to_decimal(final_offset_coordinate)
          k == FirstNearest(B, r)
      IN /\ Len(B) >= 1
         /\ Len(R) = Len(B)
         /\ \A i \in 1..Len(B) :
               /\ R[i][1] = B[i][1] + (t.lat - B[k][1])
               /\ R[i][2] = B[i][2] + (t.lon - B[k][2])
         /\ R[k] = <<t.lat, t.lon>>
         /\ \A i, j \in 1..Len(B) :
               /\ R[i][1] - R[j][1] = B[i][1] - B[j][1]
               /\ R[i][2] - R[j][2] = B[i][2] - B[j][2]

\* C3 witness: an anchored batch in which two different elements tie for
\* the nearest place and the first of them is not the first element.
C3_Witness ==
    /\ Anchored
    /\ LET B == mirrored_decimal
           r == dms_to_decimal(reference_coordinate)
           k == FirstNearest(B, r)
       IN /\ k > 1
          /\ \E j \in (k + 1)..Len(B) :
                B[j] # B[k] /\ Dist2(B, j, r) = Dist2(B, k, r)

\* C4: applying the mirror transform twice with the same reference and
\* angle returns the point it started from.
C4_Involution == m_count = 2 => m_point = m_start

\* C4 witness: a point off the reference mirrored twice about a reference
\* off the origin, at an angle that is not a multiple of a half turn.
C4_Witness ==
    /\ m_count = 2
    /\ m_angle = 90
    /\ m_ref = <<1, -1>>
    /\ m_start = <<2, 1>>

\* C5: the mirror transform maps a coordinate equal to the reference to the
\* reference, at every angle; so a batch entry equal to the reference is
\* mirrored to the reference.
C5_FixedPoint ==
    /\ (m_count >= 1 /\ m_start = m_ref) => m_point = m_ref
    /\ pc = "offset" =>
         LET r == dms_to_decimal(reference_coordinate) IN
         \A i \in 1..Len(coordinates) :
            LET p == dms_to_decimal(coordinates[i]) IN
            (p.lat = r.lat /\ p.lon = r.lon)
               => mirrored_decimal[i] = <<r.lat, r.lon>>

\* C5 witness: a batch holding the reference among other entries has been
\* mirrored at a quarter turn.
C5_Witness ==
    /\ pc = "offset"
    /\ mirror_angle = 90
    /\ Len(coordinates) = 2
    /\ coordinates[1] = NearA
    /\ coordinates[2] = reference_coordinate
    /\ mirrored_decimal[1] # original_decimal[1]

\* C6: parsing the text that decimal_to_dms returns gives back the pair
\* with less than one unit of error on each axis, and the pair itself when
\* it is a whole number of units.
C6_RoundTrip ==
    c_origin = "decimal" =>
      /\ c_phase # "rejected"
      /\ c_phase = "parsed" =>
           \A a \in 1..2 :
              /\ Abs(c_decimal[a] - c_start[a]) < SubUnits
              /\ c_start[a] % SubUnits = 0 => c_decimal[a] = c_start[a]

\* C7: at angle 0 the mirrored point keeps the latitude offset from the
\* reference and has the negated longitude offset.
C7_MirrorAtZero ==
    (m_count = 1 /\ m_angle = 0) =>
      /\ m_point[1] - m_ref[1] = m_start[1] - m_ref[1]
      /\ m_point[2] - m_ref[2] = -(m_start[2] - m_ref[2])

\* C7 witness: a point off the reference on both axes mirrored at angle 0.
C7_Witness ==
    /\ m_count = 1
    /\ m_angle = 0
    /\ m_start[1] # m_ref[1]
    /\ m_start[2] # m_ref[2]
    /\ m_point # m_start

\* C8: with a reference or a target that is not an instance of the grammar
\* the driver prints nothing and does not end normally.
C8_FatalReference ==
    (~InGrammar(reference_coordinate) \/ ~InGrammar(final_offset_coordinate))
    => (printed = <<>> /\ pc # "done")

\* C9: with a well-formed reference and target and a batch of well-formed
\* entries of any length the driver raises nothing.
C9_RunsToCompletion ==
    ( /\ InGrammar(reference_coordinate)
      /\ InGrammar(final_offset_coordinate)
      /\ \A i \in 1..Len(coordinates) : InGrammar(coordinates[i]) )
    => pc # "failed"

\* The rotated components of steps 3 and 4 of the mirror formula.
RotA == (m_start[1] - m_ref[1]) * cos(m_angle) + (m_start[2] - m_ref[2]) * sin(m_angle)
RotB == -(m_start[1] - m_ref[1]) * sin(m_angle) + (m_start[2] - m_ref[2]) * cos(m_angle)
RotBNeg == -RotB

\* C10 as stated: lat' = rot_a cos + rot_b' sin + ref_lat and
\* lon' = -rot_a sin + rot_b' cos + ref_lon.
C10_FormulaAsStated ==
    m_count = 1 =>
      m_point = << RotA * cos(m_angle) + RotBNeg * sin(m_angle) + m_ref[1],
                   -RotA * sin(m_angle) + RotBNeg * cos(m_angle) + m_ref[2] >>

\* C10 amended: the rotation back is by the negated angle, so
\* lat' = rot_a cos - rot_b' sin + ref_lat and
\* lon' = rot_a sin + rot_b' cos + ref_lon.
C10_FormulaAmended ==
    m_count = 1 =>
      m_point = << RotA * cos(m_angle) - RotBNeg * sin(m_angle) + m_ref[1],
                   RotA * sin(m_angle) + RotBNeg * cos(m_angle) + m_ref[2] >>

\* C10 witness: a point off the reference mirrored once at a quarter turn,
\* where the two formulas differ.
C10_Witness ==
    /\ m_count = 1
    /\ m_angle \in {90, 270, -90}
    /\ m_start[1] # m_ref[1]
    /\ m_start[2] # m_ref[2]

====
